---- MODULE Spec2Model ----
(***************************************************************************)
(* A model of tinyland-logging-middleware: the configuration register      *)
(* (config.ts), the tRPC logging middleware (middleware.ts) and the scoped *)
(* logger factory (create-logger.ts).                                      *)
(*                                                                         *)
(* JavaScript values are tagged records:                                   *)
(*   [t |-> "undefined"], [t |-> "null"], [t |-> "string", s |-> "..."],   *)
(*   [t |-> "number", n |-> 404], [t |-> "boolean", b |-> TRUE],           *)
(*   [t |-> "object", id |-> identity, class |-> constructor name,         *)
(*    props |-> own properties].                                           *)
(* A log context is a function from its keys to JavaScript values.         *)
(***************************************************************************)
EXTENDS Integers, Sequences, FiniteSets, TLC

\* ------------------------------------------------------------------ bounds
\* number of loggingMiddleware invocations that can be in flight at once
MaxInFlight == 2
\* number of scoped loggers created / of calls made through them
MaxLoggers == 1
MaxDelivered == 1

Slots == 1..MaxInFlight
\* the readings Date.now() can return; the wall clock is not monotonic, so a
\* later reading can be the smaller one
Times == {1000, 1050}

\* ------------------------------------------------------ JavaScript values
Undefined == [t |-> "undefined"]
Null == [t |-> "null"]
Str(s) == [t |-> "string", s |-> s]
Num(n) == [t |-> "number", n |-> n]
Bool(b) == [t |-> "boolean", b |-> b]
Object(id, props) == [t |-> "object", id |-> id, class |-> "Object", props |-> props]
ErrorObject(id, class, message) ==
    [t |-> "object", id |-> id, class |-> class, props |-> [message |-> Str(message)]]

EmptyProps == [k \in {} |-> Undefined]

IsNullish(v) == v.t \in {"undefined", "null"}

ErrorClasses == {"Error", "TypeError", "RangeError"}

\* error instanceof Error
IsError(v) == v.t = "object" /\ v.class \in ErrorClasses

\* v.k for a non-nullish v: an own property, else the property inherited
\* from the prototype (of the keys read, `name` of an Error instance, which
\* is the name of its class), else undefined
Prop(v, k) ==
    IF v.t = "object" /\ k \in DOMAIN v.props THEN v.props[k]
    ELSE IF IsError(v) /\ k = "name" THEN Str(v.class)
    ELSE Undefined

\* v?.k
OptProp(v, k) == IF IsNullish(v) THEN Undefined ELSE Prop(v, k)

\* JavaScript truthiness, as used by `a || b`
Truthy(v) ==
    CASE v.t = "undefined" -> FALSE
      [] v.t = "null" -> FALSE
      [] v.t = "string" -> v.s # ""
      [] v.t = "number" -> v.n # 0
      [] v.t = "boolean" -> v.b
      [] OTHER -> TRUE

\* mutant: a ?? b, only undefined and null are replaced
OrElseNullish(a, b) == IF IsNullish(a) THEN b ELSE a

\* a || b
OrElse(a, b) == IF Truthy(a) THEN a ELSE b

\* the TypeError raised by reading property k of undefined or null
PropertyTypeError(v, k) ==
    ErrorObject("internal", "TypeError",
                "Cannot read properties of " \o v.t \o " (reading '" \o k \o "')")

\* ------------------------------------------------------------------ sinks
\* config.ts: the built-in logger that discards every message
noopLogger == "noop"
\* loggers made by the host application and injected through configure
InjectedLoggers == {"s1", "s2"}
Loggers == {noopLogger} \cup InjectedLoggers
LogLevels == {"debug", "info", "warn", "error"}

\* one call of a method of a sink
SinkCall(logger, level, message, context) ==
    [sink |-> logger, level |-> level, message |-> message, context |-> context]

\* a sink of the host that breaks the sink contract: its info operation
\* raises when it is handed the completion message
raisingLogger == "sx"
SinkFailure == ErrorObject("sinkError", "Error", "sink down")
Raises(logger, level, message) ==
    /\ logger = raisingLogger
    /\ level = "info"
    /\ message = "tRPC procedure completed"

VARIABLES
    currentConfig,   \* config.ts: the configuration register
    inv,             \* the loggingMiddleware invocations, by slot
    scoped,          \* the loggers returned by createLogger, in creation order
    delivered,       \* the sink calls made through scoped loggers
    lastOp           \* history: the last operation on the configuration register

vars == <<currentConfig, inv, scoped, delivered, lastOp>>

\* ------------------------------------------------- configuration register
DefaultConfig == [logger |-> noopLogger]

\* mutant: { ...config, ...currentConfig }, the earlier configuration wins
ShallowCopyUnderCurrent(config) ==
    [k \in DOMAIN config \cup DOMAIN currentConfig |->
        IF k \in DOMAIN currentConfig THEN currentConfig[k] ELSE config[k]]

\* { ...config }
ShallowCopy(config) == [k \in DOMAIN config |-> config[k]]

\* mutant: the configuration read once, when the module was loaded
getConfigAtLoad == DefaultConfig

getConfig == currentConfig

getNoopLogger == noopLogger

configure(config) ==
    /\ currentConfig' = ShallowCopy(config)
    /\ lastOp' = [op |-> "configure", config |-> config]
    /\ UNCHANGED <<inv, scoped, delivered>>

resetConfig ==
    /\ currentConfig' = DefaultConfig
    /\ lastOp' = [op |-> "resetConfig"]
    /\ UNCHANGED <<inv, scoped, delivered>>

\* ------------------------------------------------------------- middleware
Pending == [kind |-> "pending", value |-> Undefined]
Fulfilled(v) == [kind |-> "fulfilled", value |-> v]
Rejected(v) == [kind |-> "rejected", value |-> v]

NoOpts == [ctx |-> Undefined, path |-> Undefined, type |-> Undefined]

IdleSlot ==
    [pc |-> "idle", opts |-> NoOpts, logger |-> noopLogger, startTime |-> 0,
     clockReads |-> <<>>, entries |-> <<>>, settled |-> Pending, outcome |-> Pending]

\* mutant: null is excluded too, as for the session fields
IfDefinedAndNotNull(k, v) ==
    IF v.t # "undefined" /\ v.t # "null" THEN k :> v ELSE <<>>

\* field k of the context when the value read is not undefined
IfDefined(k, v) == IF v.t # "undefined" THEN k :> v ELSE <<>>

\* mutant: only undefined is excluded, as for the client fields
IfPresentOrNull(k, v) == IF v.t # "undefined" THEN k :> v ELSE <<>>

\* field k of the context when the value read is neither undefined nor null
IfPresent(k, v) == IF v.t # "undefined" /\ v.t # "null" THEN k :> v ELSE <<>>

\* mutant: the envelope is kept in a variable of the module, shared by the
\* invocations in flight
BaseContextShared(opts) ==
    IF \E j \in Slots : inv[j].pc # "idle"
    THEN LET j == CHOOSE j \in Slots :
                      /\ inv[j].pc # "idle"
                      /\ \A k \in Slots : inv[k].pc # "idle" => k <= j
         IN  [component |-> Str("trpc-middleware"),
              procedure |-> OrElse(inv[j].opts.path, Str("unknown")),
              procedureType |-> OrElse(inv[j].opts.type, Str("unknown"))]
    ELSE [component |-> Str("trpc-middleware"),
          procedure |-> OrElse(opts.path, Str("unknown")),
          procedureType |-> OrElse(opts.type, Str("unknown"))]

\* the three fields every entry of the middleware carries
BaseContext(opts) ==
    [component |-> Str("trpc-middleware"),
     procedure |-> OrElse(opts.path, Str("unknown")),
     procedureType |-> OrElse(opts.type, Str("unknown"))]

\* the start-of-call log context, for a ctx that is an object
startContext(opts) ==
    LET session == Prop(opts.ctx, "session")
        client == Prop(opts.ctx, "client")
    IN  BaseContext(opts)
          @@ IfPresent("sessionId", OptProp(session, "id"))
          @@ IfPresent("userId", OptProp(session, "userId"))
          @@ IfDefined("clientIpHash", OptProp(client, "ipHash"))
          @@ IfDefined("deviceType", OptProp(client, "deviceType"))
          @@ IfDefined("browser", OptProp(OptProp(client, "browser"), "name"))

\* mutant: the magnitude of the difference is written
DurationStringAbs(duration) ==
    ToString(IF duration < 0 THEN 0 - duration ELSE duration) \o "ms"

\* `${duration}ms`
DurationString(duration) == ToString(duration) \o "ms"

\* the sink calls made before next() is invoked
StartCalls(logger, opts) ==
    << SinkCall(logger, "info", "tRPC procedure called", startContext(opts)) >>

\* mutant: a debug trace is written next to the completion entry
CompletedCallsWithDebug(logger, opts, duration) ==
    << SinkCall(logger, "debug", "tRPC procedure completed", BaseContext(opts)),
       SinkCall(logger, "info", "tRPC procedure completed",
                BaseContext(opts)
                  @@ ("duration" :> Str(DurationString(duration)))
                  @@ ("success" :> Bool(TRUE))) >>

\* mutant: the completion entry extends the start context,
\* { ...startContext, duration, success }
CompletedCallsFromStart(logger, opts, duration) ==
    << SinkCall(logger, "info", "tRPC procedure completed",
                startContext(opts)
                  @@ ("duration" :> Str(DurationString(duration)))
                  @@ ("success" :> Bool(TRUE))) >>

\* the sink calls made after next() resolved
CompletedCalls(logger, opts, duration) ==
    << SinkCall(logger, "info", "tRPC procedure completed",
                BaseContext(opts)
                  @@ ("duration" :> Str(DurationString(duration)))
                  @@ ("success" :> Bool(TRUE))) >>

\* String(error)
StringOf(v) ==
    CASE v.t = "undefined" -> "undefined"
      [] v.t = "null" -> "null"
      [] v.t = "string" -> v.s
      [] v.t = "number" -> ToString(v.n)
      [] v.t = "boolean" -> IF v.b THEN "true" ELSE "false"
      [] OTHER -> "[object Object]"

\* mutant: the type tag of null is 'null'
TypeOfNullAsNull(v) == v.t

\* typeof error
TypeOf(v) == IF v.t = "null" THEN "object" ELSE v.t

ErrorMessage(error) ==
    IF IsError(error) THEN Prop(error, "message").s ELSE StringOf(error)

ErrorType(error) == IF IsError(error) THEN error.class ELSE TypeOf(error)

\* mutant: the failure is written at info severity
FailedCallsAtInfo(logger, opts, duration, error) ==
    << SinkCall(logger, "info", "tRPC procedure failed",
                BaseContext(opts)
                  @@ ("duration" :> Str(DurationString(duration)))
                  @@ ("success" :> Bool(FALSE))
                  @@ ("error" :> Str(ErrorMessage(error)))
                  @@ ("errorType" :> Str(ErrorType(error)))) >>

\* the sink calls made after next() rejected
FailedCalls(logger, opts, duration, error) ==
    << SinkCall(logger, "error", "tRPC procedure failed",
                BaseContext(opts)
                  @@ ("duration" :> Str(DurationString(duration)))
                  @@ ("success" :> Bool(FALSE))
                  @@ ("error" :> Str(ErrorMessage(error)))
                  @@ ("errorType" :> Str(ErrorType(error)))) >>

\* mutant: `return result ?? null`
ReturnedOrNull(result) ==
    Fulfilled(IF result.t = "undefined" THEN Null ELSE result)

\* `return result`
Returned(result) == Fulfilled(result)

\* mutant: a value that is no Error is wrapped, `throw new Error(String(error))`
ThrownAsError(error) ==
    Rejected(IF IsError(error) THEN error
             ELSE ErrorObject("wrapped", "Error", StringOf(error)))

\* `throw error`
Thrown(error) == Rejected(error)

\* mutant: the sink is fetched again when the terminal entry is written
TerminalLoggerAtResume(i) == getConfig.logger

\* mutant: the terminal entry falls back to the built-in sink
TerminalLoggerBuiltIn(i) == getNoopLogger

\* the logger an invocation writes its terminal entry to: the one captured by
\* `const { logger } = getConfig()` at the start of the invocation
TerminalLogger(i) == inv[i].logger

\* mutant: a missing session is filled in on the caller's ctx itself,
\* ctx.session ??= {}
loggingMiddlewareDefaulting(i, opts) ==
    /\ inv[i].pc = "idle"
    /\ \A j \in 1..(i - 1) : inv[j].pc # "idle"
    /\ \E now \in Times :
         LET logger == getConfig.logger
             ctx == opts.ctx
             defaulted ==
                 IF ctx.t = "object" /\ IsNullish(Prop(ctx, "session"))
                 THEN [opts EXCEPT !.ctx =
                          Object(ctx.id, ("session" :> Object("session", EmptyProps))
                                           @@ ctx.props)]
                 ELSE opts
             started == [IdleSlot EXCEPT !.opts = defaulted, !.logger = logger,
                                         !.startTime = now, !.clockReads = <<now>>]
         IN  inv' = [inv EXCEPT ![i] =
                 IF IsNullish(opts.ctx)
                 THEN [started EXCEPT !.pc = "done",
                          !.outcome = Thrown(PropertyTypeError(opts.ctx, "session"))]
                 ELSE [started EXCEPT !.pc = "awaiting",
                          !.entries = StartCalls(logger, defaulted)]]
    /\ UNCHANGED <<currentConfig, scoped, delivered, lastOp>>

\* loggingMiddleware(opts), from the call to the suspension at `await next()`
\* (or to the rejection, when reading ctx.session raises)
loggingMiddleware(i, opts) ==
    /\ inv[i].pc = "idle"
    /\ \A j \in 1..(i - 1) : inv[j].pc # "idle"
    /\ \E now \in Times :
         LET logger == getConfig.logger
             started == [IdleSlot EXCEPT !.opts = opts, !.logger = logger,
                                         !.startTime = now, !.clockReads = <<now>>]
         IN  inv' = [inv EXCEPT ![i] =
                 IF IsNullish(opts.ctx)
                 THEN [started EXCEPT !.pc = "done",
                          !.outcome = Thrown(PropertyTypeError(opts.ctx, "session"))]
                 ELSE [started EXCEPT !.pc = "awaiting",
                          !.entries = StartCalls(logger, opts)]]
    /\ UNCHANGED <<currentConfig, scoped, delivered, lastOp>>

\* the promise returned by next() is fulfilled with result
NextResolves(i, result) ==
    /\ inv[i].pc = "awaiting"
    /\ inv' = [inv EXCEPT ![i].pc = "settled", ![i].settled = Fulfilled(result)]
    /\ UNCHANGED <<currentConfig, scoped, delivered, lastOp>>

\* the promise returned by next() is rejected with error
NextRejects(i, error) ==
    /\ inv[i].pc = "awaiting"
    /\ inv' = [inv EXCEPT ![i].pc = "settled", ![i].settled = Rejected(error)]
    /\ UNCHANGED <<currentConfig, scoped, delivered, lastOp>>

\* mutant: next() is not awaited, the invocation runs on while the promise of
\* next() may still be pending
loggingMiddlewareResumeUnawaited(i) ==
    /\ inv[i].pc \in {"awaiting", "settled"}
    /\ \E now \in Times :
         LET duration == now - inv[i].startTime
         IN  inv' = [inv EXCEPT ![i].pc = "done",
                        ![i].clockReads = Append(@, now),
                        ![i].entries = @ \o CompletedCalls(TerminalLogger(i),
                                                           inv[i].opts, duration),
                        ![i].outcome = Fulfilled(inv[i].settled.value)]
    /\ UNCHANGED <<currentConfig, scoped, delivered, lastOp>>

\* loggingMiddleware resumes after `await next()` and runs to its end
loggingMiddlewareResume(i) ==
    /\ inv[i].pc = "settled"
    /\ \E now \in Times :
         LET duration == now - inv[i].startTime
             value == inv[i].settled.value
             calls == IF inv[i].settled.kind = "fulfilled"
                      THEN CompletedCalls(TerminalLogger(i), inv[i].opts, duration)
                      ELSE FailedCalls(TerminalLogger(i), inv[i].opts, duration, value)
         IN  IF /\ inv[i].settled.kind = "fulfilled"
                /\ Raises(TerminalLogger(i), "info", "tRPC procedure completed")
             THEN \* logger.info is called and raises inside the try: the
                  \* catch block runs
                  \E later \in Times :
                      inv' = [inv EXCEPT ![i].pc = "done",
                                 ![i].clockReads = @ \o << now, later >>,
                                 ![i].entries = @ \o calls
                                                  \o FailedCalls(TerminalLogger(i),
                                                       inv[i].opts,
                                                       later - inv[i].startTime,
                                                       SinkFailure),
                                 ![i].outcome = Thrown(SinkFailure)]
             ELSE inv' = [inv EXCEPT ![i].pc = "done",
                            ![i].clockReads = Append(@, now),
                            ![i].entries = @ \o calls,
                            ![i].outcome = IF inv[i].settled.kind = "fulfilled"
                                           THEN Returned(value) ELSE Thrown(value)]
    /\ UNCHANGED <<currentConfig, scoped, delivered, lastOp>>

\* the caller of loggingMiddleware receives the outcome; the slot is free again
Observe(i) ==
    /\ inv[i].pc = "done"
    /\ inv' = [inv EXCEPT ![i] = IdleSlot]
    /\ UNCHANGED <<currentConfig, scoped, delivered, lastOp>>

\* ---------------------------------------------------------- scoped logger
\* mutant: { ...context, component }, the tag overrides the caller's key
ScopedContextTagWins(component, context) ==
    IF context.t = "object"
    THEN ("component" :> Str(component)) @@ context.props
    ELSE "component" :> Str(component)

\* { component, ...context }
ScopedContext(component, context) ==
    IF context.t = "object"
    THEN context.props @@ ("component" :> Str(component))
    ELSE "component" :> Str(component)

\* the object createLogger returns: the closure over component and logger
ScopedLogger(component) == [component |-> component, logger |-> getConfig.logger]

\* the sink a scoped logger delivers to
ScopedSink(log) == log.logger

createLogger(component) ==
    /\ Len(scoped) < MaxLoggers
    /\ scoped' = Append(scoped, ScopedLogger(component))
    /\ UNCHANGED <<currentConfig, inv, delivered, lastOp>>

\* log.<level>(message, context) on the k-th scoped logger
LogCall(k, level, message, context) ==
    /\ k \in 1..Len(scoped)
    /\ Len(delivered) < MaxDelivered
    /\ delivered' = Append(delivered,
            SinkCall(ScopedSink(scoped[k]), level, message,
                     ScopedContext(scoped[k].component, context)))
    /\ UNCHANGED <<currentConfig, inv, scoped, lastOp>>

\* ----------------------------------------------------------------- inputs
FullCtx ==
    Object("ctx", [session |-> Object("session", [id |-> Str("sess-1"), userId |-> Str("user-1")]),
                   client |-> Object("client", [ipHash |-> Str("abc123"),
                                                deviceType |-> Str("desktop"),
                                                browser |-> Object("browser", [name |-> Str("Chrome")])])])
EmptyCtx == Object("ctx", EmptyProps)

\* the envelopes of the concurrent specification
Envelopes ==
    { [ctx |-> FullCtx, path |-> Str("user.delete"), type |-> Str("mutation")],
      [ctx |-> EmptyCtx, path |-> Undefined, type |-> Str("")] }

Results == { Object("r1", [ok |-> Bool(TRUE)]) }
Failures == { ErrorObject("e1", "Error", "forbidden") }

\* every shape of the call envelope
IdValues == { Undefined, Null, Str(""), Str("sess-1") }
SessionValues ==
    { Undefined, Null, Object("session", EmptyProps) }
      \cup { Object("session", [id |-> a, userId |-> b]) : a \in IdValues, b \in IdValues }
BrowserValues ==
    { Undefined, Null, Object("browser", EmptyProps),
      Object("browser", [name |-> Str("Chrome")]), Object("browser", [name |-> Null]),
      ErrorObject("e1", "Error", "forbidden") }
ClientValues ==
    { Undefined, Null }
      \cup { Object("client", [ipHash |-> h, deviceType |-> d, browser |-> b]) :
               h \in { Undefined, Null, Str("abc123") },
               d \in { Undefined, Null, Str("desktop") },
               b \in BrowserValues }
CtxValues ==
    { Undefined, Null, EmptyCtx }
      \cup { Object("ctx", [session |-> s, client |-> c]) :
               s \in SessionValues, c \in ClientValues }
PathValues == { Undefined, Str(""), Str("user.delete") }
TypeValues == { Undefined, Str(""), Str("query") }
AllEnvelopes ==
    { [ctx |-> c, path |-> p, type |-> y] :
        c \in CtxValues, p \in PathValues, y \in TypeValues }

\* every shape of the value next() settles with
AllResults ==
    { Undefined, Null, Str("ok"), Num(0), Object("r1", [ok |-> Bool(TRUE)]) }
AllFailures ==
    { ErrorObject("e1", "Error", "forbidden"), ErrorObject("e2", "TypeError", "bad input"),
      Str("string error"), Num(404), Null, Undefined, Object("o1", [code |-> Num(500)]) }

\* the inputs of the scoped loggers
Components == { "auth", "" }
Messages == { "test msg" }
CallContexts ==
    { Undefined, Object("c1", [table |-> Str("users")]),
      Object("c2", [component |-> Str("override"), rows |-> Num(5)]) }

\* the configurations passed to configure: a logger of the host, or the
\* built-in one the host obtained from getNoopLogger()
Configs == { [logger |-> l] : l \in InjectedLoggers \cup {getNoopLogger} }
\* the configuration the host of the concurrent specification injects
HostConfigs == { [logger |-> "s1"] }

\* ---------------------------------------------------------- specification
Init ==
    /\ currentConfig = DefaultConfig
    /\ inv = [i \in Slots |-> IdleSlot]
    /\ scoped = <<>>
    /\ delivered = <<>>
    /\ lastOp = [op |-> "load"]

Next ==
    \/ \E config \in HostConfigs : configure(config)
    \/ resetConfig
    \/ \E i \in Slots, opts \in Envelopes : loggingMiddleware(i, opts)
    \/ \E i \in Slots, result \in Results : NextResolves(i, result)
    \/ \E i \in Slots, error \in Failures : NextRejects(i, error)
    \/ \E i \in Slots : loggingMiddlewareResume(i)
    \/ \E i \in Slots : Observe(i)

Spec == Init /\ [][Next]_vars

\* Once the promise of next() has settled, the job queue of the runtime runs
\* the rest of the async function; nothing obliges next() itself to settle.
Fairness == \A i \in Slots : WF_vars(loggingMiddlewareResume(i))

\* the invocations alone, under the configuration present at load
NextFair ==
    \/ \E i \in Slots, opts \in Envelopes : loggingMiddleware(i, opts)
    \/ \E i \in Slots, result \in Results : NextResolves(i, result)
    \/ \E i \in Slots, error \in Failures : NextRejects(i, error)
    \/ \E i \in Slots : loggingMiddlewareResume(i)
    \/ \E i \in Slots : Observe(i)

SpecFair == Init /\ [][NextFair]_vars /\ Fairness

\* invocations in flight together whose continuations fail with different
\* values and settle in any order
RaceFailures == { ErrorObject("e1", "Error", "forbidden"), Num(404) }

NextRace ==
    \/ \E i \in Slots, opts \in Envelopes : loggingMiddleware(i, opts)
    \/ \E i \in Slots, result \in Results : NextResolves(i, result)
    \/ \E i \in Slots, error \in RaceFailures : NextRejects(i, error)
    \/ \E i \in Slots : loggingMiddlewareResume(i)
    \/ \E i \in Slots : Observe(i)

SpecRace == Init /\ [][NextRace]_vars

\* one invocation at a time, over every shape of the call envelope
NextEnvelope ==
    \/ inv[1].pc = "idle" /\ \E opts \in AllEnvelopes : loggingMiddleware(1, opts)
    \/ \E result \in Results : NextResolves(1, result)
    \/ \E error \in Failures : NextRejects(1, error)
    \/ loggingMiddlewareResume(1)

SpecEnvelope == Init /\ [][NextEnvelope]_vars

\* one invocation at a time, over every shape of the settled value and every sink
NextOutcome ==
    \/ \E config \in Configs : configure(config)
    \/ resetConfig
    \/ \E opts \in Envelopes : loggingMiddleware(1, opts)
    \/ \E result \in AllResults : NextResolves(1, result)
    \/ \E error \in AllFailures : NextRejects(1, error)
    \/ loggingMiddlewareResume(1)
    \/ Observe(1)

SpecOutcome == Init /\ [][NextOutcome]_vars

\* the configuration register and the scoped loggers
NextLogger ==
    \/ \E config \in Configs : configure(config)
    \/ resetConfig
    \/ \E component \in Components : createLogger(component)
    \/ \E k \in 1..MaxLoggers, level \in LogLevels, message \in Messages,
          context \in CallContexts : LogCall(k, level, message, context)

SpecLogger == Init /\ [][NextLogger]_vars

\* every operation of the package on one register: one invocation at a time
\* next to the scoped loggers
NextFrame ==
    \/ \E config \in Configs : configure(config)
    \/ resetConfig
    \/ \E opts \in Envelopes : loggingMiddleware(1, opts)
    \/ \E result \in Results : NextResolves(1, result)
    \/ \E error \in Failures : NextRejects(1, error)
    \/ loggingMiddlewareResume(1)
    \/ Observe(1)
    \/ createLogger("auth")
    \/ \E k \in 1..MaxLoggers, level \in LogLevels, message \in Messages :
          LogCall(k, level, message, Undefined)

SpecFrame == Init /\ [][NextFrame]_vars

\* one invocation at a time, under the built-in sink, a sink that keeps the
\* contract, or one whose info operation raises
SinkConfigs == { [logger |-> "s1"], [logger |-> raisingLogger] }

NextSink ==
    \/ \E config \in SinkConfigs : configure(config)
    \/ resetConfig
    \/ \E opts \in Envelopes : loggingMiddleware(1, opts)
    \/ \E result \in AllResults : NextResolves(1, result)
    \/ \E error \in AllFailures : NextRejects(1, error)
    \/ loggingMiddlewareResume(1)
    \/ Observe(1)

SpecSink == Init /\ [][NextSink]_vars

\* ----------------------------------------------------------------- claims
IsCall(call, level, message) == call.level = level /\ call.message = message
IsStart(call) == IsCall(call, "info", "tRPC procedure called")
IsCompleted(call) == IsCall(call, "info", "tRPC procedure completed")
IsFailed(call) == IsCall(call, "error", "tRPC procedure failed")

\* C1: an invocation whose next() resolves makes one info call 'tRPC procedure
\* called' before next() is invoked, one info call 'tRPC procedure completed'
\* after next() resolved, in that order, and no other sink call.
C1_SuccessEntries ==
    \A i \in Slots :
        /\ inv[i].pc = "awaiting" =>
              Len(inv[i].entries) = 1 /\ IsStart(inv[i].entries[1])
        /\ inv[i].settled.kind = "fulfilled" =>
              /\ inv[i].pc = "settled" =>
                    Len(inv[i].entries) = 1 /\ IsStart(inv[i].entries[1])
              /\ inv[i].pc = "done" =>
                    /\ Len(inv[i].entries) = 2
                    /\ IsStart(inv[i].entries[1])
                    /\ IsCompleted(inv[i].entries[2])
              /\ \A k \in DOMAIN inv[i].entries : inv[i].entries[k].level = "info"

C1_Witness ==
    \E i \in Slots : inv[i].pc = "done" /\ inv[i].outcome.kind = "fulfilled"

\* C2: an invocation whose next() rejects makes one info call 'tRPC procedure
\* called' and one error call 'tRPC procedure failed', no 'tRPC procedure
\* completed' call, and the error call is made before the caller can observe
\* the rejection.
C2_FailureEntries ==
    \A i \in Slots :
        inv[i].settled.kind = "rejected" =>
            /\ inv[i].pc = "settled" =>
                  /\ Len(inv[i].entries) = 1 /\ IsStart(inv[i].entries[1])
                  /\ inv[i].outcome.kind = "pending"
            /\ inv[i].pc = "done" =>
                  /\ Len(inv[i].entries) = 2
                  /\ IsStart(inv[i].entries[1])
                  /\ IsFailed(inv[i].entries[2])
            /\ inv[i].outcome.kind = "rejected" =>
                  \E k \in DOMAIN inv[i].entries : IsFailed(inv[i].entries[k])
            /\ \A k \in DOMAIN inv[i].entries :
                  inv[i].entries[k].message # "tRPC procedure completed"

C2_Witness ==
    \E i \in Slots :
        /\ inv[i].pc = "done"
        /\ inv[i].settled.kind = "rejected"
        /\ inv[i].outcome.kind = "rejected"

\* C3: when next() rejects with a value of any shape, loggingMiddleware
\* rejects with that same value: same identity, not wrapped or converted.
C3_SameFailure ==
    \A i \in Slots :
        (inv[i].pc = "done" /\ inv[i].settled.kind = "rejected") =>
            inv[i].outcome = Rejected(inv[i].settled.value)

C3_Witness ==
    \E i \in Slots :
        /\ inv[i].pc = "done"
        /\ inv[i].settled = Rejected(Null)
        /\ inv[i].outcome.kind = "rejected"

\* C4: whatever the shape of ctx (ctx absent or null, session absent or null,
\* client absent or null), the invocation writes its start entry without the
\* corresponding optional fields, invokes next(), and its outcome is next()'s.
C4_ToleratesAnyContext ==
    \A i \in Slots :
        inv[i].pc # "idle" =>
            LET ctx == inv[i].opts.ctx
                session == OptProp(ctx, "session")
                client == OptProp(ctx, "client")
            IN  /\ Len(inv[i].entries) >= 1
                /\ IsStart(inv[i].entries[1])
                /\ IsNullish(session) =>
                      DOMAIN inv[i].entries[1].context \cap {"sessionId", "userId"} = {}
                /\ IsNullish(client) =>
                      DOMAIN inv[i].entries[1].context
                          \cap {"clientIpHash", "deviceType", "browser"} = {}
                /\ inv[i].pc = "done" =>
                      /\ inv[i].settled.kind # "pending"
                      /\ inv[i].outcome = inv[i].settled

\* C5: when next() resolves with r, loggingMiddleware resolves with exactly r,
\* null and undefined included, whichever sink is configured.
C5_SameResult ==
    \A i \in Slots :
        (inv[i].pc = "done" /\ inv[i].settled.kind = "fulfilled") =>
            inv[i].outcome = Fulfilled(inv[i].settled.value)

C5_Witness ==
    \E i \in Slots :
        /\ inv[i].pc = "done"
        /\ inv[i].settled = Fulfilled(Undefined)
        /\ inv[i].outcome.kind = "fulfilled"
        /\ inv[i].logger = noopLogger

\* C6: a call through a scoped logger is delivered to the sink that is active
\* at the time of the call, not to the one active when createLogger ran.
C6_SinkAtCallTime ==
    [][delivered' # delivered =>
          delivered'[Len(delivered')].sink = currentConfig.logger]_vars

\* C7: loggingMiddleware reads the register at each invocation: an invocation
\* writes its start entry to the sink active when it starts, and none of its
\* entries reaches another sink.
C7_SinkAtInvocation ==
    [][\A i \in Slots :
          /\ (inv[i].pc = "idle" /\ inv'[i].pc = "awaiting") =>
                /\ inv'[i].logger = currentConfig.logger
                /\ Len(inv'[i].entries) = 1
                /\ inv'[i].entries[1].sink = currentConfig.logger
          /\ (inv[i].pc = "settled" /\ inv'[i].pc = "done") =>
                \A k \in DOMAIN inv'[i].entries :
                    inv'[i].entries[k].sink = inv[i].entries[1].sink]_vars

C7_Witness ==
    \E i, j \in Slots :
        /\ inv[i].pc = "awaiting" /\ inv[j].pc = "awaiting"
        /\ inv[i].entries[1].sink = noopLogger
        /\ inv[j].entries[1].sink \in InjectedLoggers
        /\ currentConfig.logger = inv[j].entries[1].sink

\* C8: a configure or resetConfig executed while an invocation is suspended at
\* next() does not affect it: its terminal entry is written to the sink that
\* received its start entry.
C8_TerminalSinkIsStartSink ==
    \A i \in Slots :
        inv[i].pc = "done" =>
            \A k \in DOMAIN inv[i].entries :
                inv[i].entries[k].sink = inv[i].entries[1].sink

\* the register was changed while the invocation was suspended: the invocation
\* has settled, and the active sink is no longer the one it started with
C8_Witness ==
    \E i \in Slots :
        /\ inv[i].pc = "settled"
        /\ inv[i].entries[1].sink # currentConfig.logger

\* C9 (as stated): the no-op sink that resetConfig restores is distinct from
\* every injected sink: a resetConfig that follows a configure leaves the
\* register with a sink other than the one that configure was given.
C9_ResetDistinct ==
    [][(lastOp.op = "configure" /\ lastOp'.op = "resetConfig") =>
          getConfig'.logger # lastOp.config.logger]_vars

\* C9 (amended): getConfig().logger is the sink passed to the most recent
\* configure when no resetConfig followed it, with nothing kept of earlier
\* configurations, also when that sink is the one getNoopLogger() returns; at
\* load and after any resetConfig, repeated or not, it is the no-op sink of
\* getNoopLogger().
C9_Register ==
    /\ lastOp.op = "configure" =>
          /\ getConfig.logger = lastOp.config.logger
          /\ DOMAIN getConfig = DOMAIN lastOp.config
    /\ lastOp.op \in {"load", "resetConfig"} =>
          /\ getConfig.logger = getNoopLogger
          /\ DOMAIN getConfig = {"logger"}

\* a resetConfig after a configure whose sink a scoped logger still holds
C9_Witness ==
    /\ lastOp.op = "resetConfig"
    /\ Len(scoped) >= 1
    /\ scoped[1].logger \in InjectedLoggers

\* v is an object whose own property k is neither undefined nor null
HasOwn(v, k) ==
    /\ v.t = "object"
    /\ k \in DOMAIN v.props
    /\ v.props[k].t \notin {"undefined", "null"}

\* C10: in the start entry, sessionId is present exactly when ctx.session is a
\* non-null object whose id is neither undefined nor null, and is then that
\* id; userId likewise from session.userId; each is decided on its own.
C10_SessionFields ==
    \A i \in Slots :
        (inv[i].pc # "idle" /\ inv[i].entries # <<>>) =>
            LET ctx == inv[i].opts.ctx
                context == inv[i].entries[1].context
                hasSession == ctx.t = "object" /\ "session" \in DOMAIN ctx.props
                hasId == hasSession /\ HasOwn(ctx.props.session, "id")
                hasUserId == hasSession /\ HasOwn(ctx.props.session, "userId")
            IN  /\ IsStart(inv[i].entries[1])
                /\ "sessionId" \in DOMAIN context <=> hasId
                /\ hasId => context["sessionId"] = ctx.props.session.props.id
                /\ "userId" \in DOMAIN context <=> hasUserId
                /\ hasUserId => context["userId"] = ctx.props.session.props.userId

\* id set with userId null: only sessionId is written
C10_Witness ==
    \E i \in Slots :
        /\ inv[i].pc = "awaiting"
        /\ HasOwn(inv[i].opts.ctx, "session")
        /\ HasOwn(inv[i].opts.ctx.props.session, "id")
        /\ "userId" \in DOMAIN inv[i].opts.ctx.props.session.props
        /\ inv[i].opts.ctx.props.session.props.userId = Null
        /\ "sessionId" \in DOMAIN inv[i].entries[1].context
        /\ "userId" \notin DOMAIN inv[i].entries[1].context

\* v is an object whose own property k is not undefined
HasDefined(v, k) ==
    /\ v.t = "object"
    /\ k \in DOMAIN v.props
    /\ v.props[k].t # "undefined"

\* the name of a browser object, its own or the one an Error instance inherits
NameOf(v) ==
    IF v.t # "object" THEN Undefined
    ELSE IF "name" \in DOMAIN v.props THEN v.props["name"]
    ELSE IF v.class \in {"Error", "TypeError", "RangeError"} THEN Str(v.class)
    ELSE Undefined

\* C11: in the start entry, clientIpHash is present exactly when ctx.client is
\* a non-null object whose ipHash is not undefined (a null ipHash is written,
\* as null); deviceType likewise; browser is present exactly when
\* client.browser is a non-null object whose name is not undefined, and is then
\* that name; an absent, null or nameless browser omits the field.
C11_ClientFields ==
    \A i \in Slots :
        (inv[i].pc # "idle" /\ inv[i].entries # <<>>) =>
            LET ctx == inv[i].opts.ctx
                context == inv[i].entries[1].context
                hasClient == HasDefined(ctx, "client") /\ ctx.props.client.t = "object"
                hasIpHash == hasClient /\ HasDefined(ctx.props.client, "ipHash")
                hasDevice == hasClient /\ HasDefined(ctx.props.client, "deviceType")
                hasBrowser == /\ hasClient
                              /\ HasDefined(ctx.props.client, "browser")
                              /\ NameOf(ctx.props.client.props.browser).t # "undefined"
            IN  /\ IsStart(inv[i].entries[1])
                /\ "clientIpHash" \in DOMAIN context <=> hasIpHash
                /\ hasIpHash => context["clientIpHash"] = ctx.props.client.props.ipHash
                /\ "deviceType" \in DOMAIN context <=> hasDevice
                /\ hasDevice => context["deviceType"] = ctx.props.client.props.deviceType
                /\ "browser" \in DOMAIN context <=> hasBrowser
                /\ hasBrowser =>
                      context["browser"] = NameOf(ctx.props.client.props.browser)

\* a null ipHash is written as null, next to a null browser that is omitted
C11_Witness ==
    \E i \in Slots :
        /\ inv[i].pc = "awaiting"
        /\ HasDefined(inv[i].opts.ctx, "client")
        /\ HasDefined(inv[i].opts.ctx.props.client, "ipHash")
        /\ inv[i].opts.ctx.props.client.props.ipHash = Null
        /\ inv[i].opts.ctx.props.client.props.browser = Null
        /\ "clientIpHash" \in DOMAIN inv[i].entries[1].context
        /\ inv[i].entries[1].context["clientIpHash"] = Null
        /\ "browser" \notin DOMAIN inv[i].entries[1].context

\* the name written for a path or type: the string itself when it is a
\* non-empty string, the literal 'unknown' otherwise
NameOrUnknown(v) == IF v.t = "string" /\ v.s # "" THEN v ELSE Str("unknown")

\* C12: in every entry of an invocation, procedure is opts.path when path is
\* a non-empty string and 'unknown' when it is undefined or empty, and
\* procedureType is derived the same way from opts.type; the terminal entry
\* carries the same procedure and procedureType as the start entry.
C12_ProcedureNames ==
    \A i \in Slots :
        \A k \in DOMAIN inv[i].entries :
            /\ inv[i].entries[k].context["procedure"] = NameOrUnknown(inv[i].opts.path)
            /\ inv[i].entries[k].context["procedureType"] = NameOrUnknown(inv[i].opts.type)
            /\ inv[i].entries[k].context["procedure"] =
                  inv[i].entries[1].context["procedure"]
            /\ inv[i].entries[k].context["procedureType"] =
                  inv[i].entries[1].context["procedureType"]

\* an empty path and an undefined type, both written as 'unknown' in the
\* start entry and in the terminal entry
C12_Witness ==
    \E i \in Slots :
        /\ inv[i].pc = "done"
        /\ Len(inv[i].entries) = 2
        /\ inv[i].opts.path = Str("")
        /\ inv[i].opts.type = Undefined
        /\ inv[i].entries[2].context["procedure"] = Str("unknown")
        /\ inv[i].entries[2].context["procedureType"] = Str("unknown")

TerminalKeys == {"component", "procedure", "procedureType", "duration", "success"}
CallFields == {"sessionId", "userId", "clientIpHash", "deviceType", "browser"}

\* C13: no terminal entry contains sessionId, userId, clientIpHash, deviceType
\* or browser, whatever the call context holds: the keys of the completed
\* entry are exactly component, procedure, procedureType, duration, success,
\* with success true and component 'trpc-middleware'; the failed entry has
\* those keys plus error and errorType, with success false.
C13_TerminalKeys ==
    \A i \in Slots :
        \A k \in DOMAIN inv[i].entries :
            LET call == inv[i].entries[k]
            IN  /\ call.message = "tRPC procedure completed" =>
                      /\ DOMAIN call.context = TerminalKeys
                      /\ call.context["success"] = Bool(TRUE)
                      /\ call.context["component"] = Str("trpc-middleware")
                /\ call.message = "tRPC procedure failed" =>
                      /\ DOMAIN call.context = TerminalKeys \cup {"error", "errorType"}
                      /\ call.context["success"] = Bool(FALSE)
                      /\ call.context["component"] = Str("trpc-middleware")
                /\ k >= 2 =>
                      /\ call.message \in {"tRPC procedure completed", "tRPC procedure failed"}
                      /\ DOMAIN call.context \cap CallFields = {}

\* a completed invocation whose start entry carried all five call fields
C13_Witness ==
    \E i \in Slots :
        /\ inv[i].pc = "done"
        /\ Len(inv[i].entries) = 2
        /\ CallFields \subseteq DOMAIN inv[i].entries[1].context
        /\ IsCompleted(inv[i].entries[2])
        /\ DOMAIN inv[i].entries[2].context \cap CallFields = {}

\* the error and errorType fields expected for each failure value
ExpectedErrorFields(v) ==
    CASE v = ErrorObject("e1", "Error", "forbidden") -> << "forbidden", "Error" >>
      [] v = ErrorObject("e2", "TypeError", "bad input") -> << "bad input", "TypeError" >>
      [] v = Str("string error") -> << "string error", "string" >>
      [] v = Num(404) -> << "404", "number" >>
      [] v = Null -> << "null", "object" >>
      [] v = Undefined -> << "undefined", "undefined" >>
      [] v = Object("o1", [code |-> Num(500)]) -> << "[object Object]", "object" >>

\* C14: in the failed entry, an instance of Error gives error = its message
\* and errorType = the name of its concrete kind; any other failure value
\* gives error = its string form and errorType = its runtime type tag, so 404
\* gives ('404', 'number'), 'string error' gives ('string error', 'string')
\* and null gives ('null', 'object').
C14_ErrorFields ==
    \A i \in Slots :
        (inv[i].pc = "done" /\ inv[i].settled.kind = "rejected") =>
            /\ Len(inv[i].entries) = 2
            /\ IsFailed(inv[i].entries[2])
            /\ inv[i].entries[2].context["error"]
                 = Str(ExpectedErrorFields(inv[i].settled.value)[1])
            /\ inv[i].entries[2].context["errorType"]
                 = Str(ExpectedErrorFields(inv[i].settled.value)[2])

\* next() rejected with null and the failed entry says ('null', 'object')
C14_Witness ==
    \E i \in Slots :
        /\ inv[i].pc = "done"
        /\ inv[i].settled = Rejected(Null)
        /\ IsFailed(inv[i].entries[2])
        /\ inv[i].entries[2].context["error"] = Str("null")
        /\ inv[i].entries[2].context["errorType"] = Str("object")

\* C15: the duration of a terminal entry, completed or failed, is '<d>ms'
\* with d = the clock reading taken after next() settled minus the reading
\* taken at the start of the same invocation; an invocation that writes a
\* terminal entry has read the clock exactly twice, so 1000 then 1050 gives
\* '50ms' and equal readings give '0ms'.
C15_Duration ==
    \A i \in Slots :
        /\ inv[i].pc \in {"awaiting", "settled"} => Len(inv[i].clockReads) = 1
        /\ Len(inv[i].entries) = 2 =>
              LET reads == inv[i].clockReads
                  duration == inv[i].entries[2].context["duration"]
              IN  /\ Len(reads) = 2
                  /\ duration = Str(ToString(reads[2] - reads[1]) \o "ms")
                  /\ reads = << 1000, 1050 >> => duration = Str("50ms")
                  /\ reads[1] = reads[2] => duration = Str("0ms")

\* a failed invocation that read 1000, then 1050, and wrote '50ms'
C15_Witness ==
    \E i \in Slots :
        /\ inv[i].pc = "done"
        /\ inv[i].clockReads = << 1000, 1050 >>
        /\ IsFailed(inv[i].entries[2])
        /\ inv[i].entries[2].context["duration"] = Str("50ms")

\* the strings of one or more decimal digits followed by 'ms', up to the
\* largest clock reading
DigitsMs ==
    { ToString(n) \o "ms" : n \in 0..(CHOOSE t \in Times : \A u \in Times : u <= t) }

\* C16: every duration string written in a terminal entry is one or more
\* decimal digits followed by 'ms' (the duration is never negative), whatever
\* the two readings of Date.now are.
C16_DurationPattern ==
    \A i \in Slots :
        \A k \in DOMAIN inv[i].entries :
            "duration" \in DOMAIN inv[i].entries[k].context =>
                inv[i].entries[k].context["duration"].s \in DigitsMs

\* {component} overlaid by the caller's context, key by key
Overlaid(component, context) ==
    LET callerKeys == IF context.t = "object" THEN DOMAIN context.props ELSE {}
    IN  [ key \in callerKeys \cup {"component"} |->
            IF key \in callerKeys THEN context.props[key] ELSE Str(component) ]

\* C17: each of debug, info, warn and error of a logger returned by
\* createLogger(component) makes exactly one call to the same-severity method
\* of the sink, with the message unchanged and the context {component}
\* overlaid by the caller's context: every caller key is kept, a caller's
\* component key overrides the tag, and an absent context yields {component},
\* also for the empty component.
C17_ScopedCall ==
    [][ \A k \in 1..MaxLoggers, level \in LogLevels, message \in Messages,
           context \in CallContexts :
            LogCall(k, level, message, context) =>
                /\ Len(delivered') = Len(delivered) + 1
                /\ SubSeq(delivered', 1, Len(delivered)) = delivered
                /\ delivered'[Len(delivered')].level = level
                /\ delivered'[Len(delivered')].message = message
                /\ delivered'[Len(delivered')].context
                     = Overlaid(scoped[k].component, context) ]_vars

\* a call whose context overrode the component tag was delivered
C17_Witness ==
    \E j \in DOMAIN delivered :
        /\ delivered[j].context = [component |-> Str("override"), rows |-> Num(5)]
        /\ \E k \in DOMAIN scoped : scoped[k].component # "override"

\* C18: every invocation of loggingMiddleware produces exactly one start
\* entry and exactly one terminal entry ('tRPC procedure completed' or 'tRPC
\* procedure failed'): once it has returned to its caller it has written
\* both, and before that the start entry and at most the terminal one.
C18_OneStartOneTerminal ==
    \A i \in Slots :
        /\ inv[i].pc \in {"awaiting", "settled"} =>
              /\ Len(inv[i].entries) = 1
              /\ IsStart(inv[i].entries[1])
        /\ inv[i].pc = "done" =>
              /\ Len(inv[i].entries) = 2
              /\ IsStart(inv[i].entries[1])
              /\ IsCompleted(inv[i].entries[2]) \/ IsFailed(inv[i].entries[2])

\* C19 (as stated): when the register is changed while an invocation is
\* suspended at next(), the invocation's terminal entry is written to the
\* newly configured sink.
C19_TerminalToNewSink ==
    [][\A i \in Slots :
          (inv[i].pc = "settled" /\ inv'[i].pc = "done") =>
              inv'[i].entries[2].sink = currentConfig.logger]_vars

\* C19 (amended): when the register is changed while an invocation is
\* suspended at next(), the invocation's terminal entry is still written to
\* the sink captured when the invocation began, not to the newly configured
\* one: start entry and terminal entry land in the same sink.
C19_TerminalToCapturedSink ==
    [][\A i \in Slots :
          (/\ inv[i].pc = "settled" /\ inv'[i].pc = "done"
           /\ currentConfig.logger # inv[i].logger) =>
              /\ Len(inv'[i].entries) = 2
              /\ inv'[i].entries[2].sink = inv[i].logger
              /\ inv'[i].entries[2].sink # currentConfig.logger
              /\ inv'[i].entries[1].sink = inv[i].logger]_vars

\* configure(s1) was the last change of the register, after an invocation had
\* captured the built-in sink; that invocation has written its terminal entry
\* to the built-in sink
C19_Witness ==
    \E i \in Slots :
        /\ inv[i].pc = "done"
        /\ Len(inv[i].entries) = 2
        /\ inv[i].logger = noopLogger
        /\ inv[i].entries[2].sink = noopLogger
        /\ lastOp.op = "configure"
        /\ currentConfig.logger = "s1"

\* C20: a terminal entry is written if and only if the continuation settles.
\* While next() has neither resolved nor rejected, the invocation has written
\* its start entry only and has not returned to its caller, for as long as
\* that lasts; once next() has settled, the terminal entry is eventually
\* written and the caller gets the outcome.
C20_TerminalIffSettled ==
    /\ [](\A i \in Slots :
            /\ inv[i].pc = "awaiting" =>
                  /\ inv[i].settled = Pending
                  /\ Len(inv[i].entries) = 1
                  /\ IsStart(inv[i].entries[1])
                  /\ inv[i].outcome = Pending
            /\ Len(inv[i].entries) = 2 => inv[i].settled.kind # "pending")
    /\ \A i \in Slots :
          (inv[i].pc = "settled") ~>
              (/\ inv[i].pc = "done"
               /\ Len(inv[i].entries) = 2
               /\ inv[i].outcome.kind = inv[i].settled.kind)

\* one invocation has settled and written its terminal entry while another
\* is still suspended at next() with its start entry only
C20_Witness ==
    \E i, j \in Slots :
        /\ inv[i].pc = "done"
        /\ inv[i].settled.kind # "pending"
        /\ Len(inv[i].entries) = 2
        /\ inv[j].pc = "awaiting"
        /\ Len(inv[j].entries) = 1
        /\ inv[j].outcome = Pending

\* C21: the configuration register changes only through configure and
\* resetConfig: a step of loggingMiddleware (on either path), of createLogger or
\* of a scoped logger's method, with the reads of getConfig and getNoopLogger
\* they make, leaves it unchanged; and loggingMiddleware leaves the call
\* context it was given (ctx, ctx.session, ctx.client) unchanged.
C21_Frame ==
    [][ /\ (inv' # inv \/ scoped' # scoped \/ delivered' # delivered) =>
              currentConfig' = currentConfig
        /\ currentConfig' # currentConfig =>
              /\ lastOp'.op \in {"configure", "resetConfig"}
              /\ UNCHANGED <<inv, scoped, delivered>>
        /\ \A i \in Slots :
              /\ \A opts \in Envelopes :
                    loggingMiddleware(i, opts) => inv'[i].opts = opts
              /\ (inv[i].pc # "idle" /\ inv'[i].pc # "idle") =>
                    inv'[i].opts = inv[i].opts ]_vars

\* under an injected sink, an invocation with a bare ctx has failed and a
\* scoped logger has delivered a call; the register still holds that sink
C21_Witness ==
    /\ lastOp.op = "configure"
    /\ currentConfig.logger = lastOp.config.logger
    /\ inv[1].pc = "done"
    /\ inv[1].logger = currentConfig.logger
    /\ inv[1].opts.ctx = EmptyCtx
    /\ IsFailed(inv[1].entries[2])
    /\ Len(scoped) >= 1
    /\ Len(delivered) >= 1

\* C22: a 'tRPC procedure failed' entry is written, and loggingMiddleware
\* rejects, only for an invocation whose continuation itself rejected: an
\* invocation whose next() resolved writes no failed entry and does not
\* reject, also when the sink's info operation raises on the completion entry.
C22_FailsOnlyWhenNextRejects ==
    \A i \in Slots :
        inv[i].pc = "done" =>
            /\ (\E k \in DOMAIN inv[i].entries : IsFailed(inv[i].entries[k])) =>
                  inv[i].settled.kind = "rejected"
            /\ inv[i].outcome.kind = "rejected" => inv[i].settled.kind = "rejected"
            /\ inv[i].settled.kind = "fulfilled" =>
                  /\ inv[i].outcome = Returned(inv[i].settled.value)
                  /\ \A k \in DOMAIN inv[i].entries : ~IsFailed(inv[i].entries[k])

\* C23: with two or more invocations in flight and their continuations
\* settling in any order, each invocation writes its own start entry before
\* its own terminal entry, and each terminal entry carries that invocation's
\* own procedure, procedureType and outcome, and a duration computed from
\* that invocation's own start reading; none uses another invocation's path,
\* start time or failure value.
C23_OwnEntries ==
    \A i \in Slots :
        /\ Len(inv[i].entries) >= 1 =>
              /\ IsStart(inv[i].entries[1])
              /\ inv[i].entries[1].context["procedure"] = NameOrUnknown(inv[i].opts.path)
              /\ inv[i].clockReads[1] = inv[i].startTime
        /\ inv[i].pc = "awaiting" => Len(inv[i].entries) = 1
        /\ Len(inv[i].entries) >= 2 =>
              LET context == inv[i].entries[2].context
              IN  /\ Len(inv[i].entries) = 2
                  /\ context["procedure"] = NameOrUnknown(inv[i].opts.path)
                  /\ context["procedureType"] = NameOrUnknown(inv[i].opts.type)
                  /\ context["duration"]
                       = Str(ToString(inv[i].clockReads[2] - inv[i].startTime) \o "ms")
                  /\ inv[i].outcome = inv[i].settled
                  /\ inv[i].settled.kind = "fulfilled" => IsCompleted(inv[i].entries[2])
                  /\ inv[i].settled.kind = "rejected" =>
                        /\ IsFailed(inv[i].entries[2])
                        /\ context["error"]
                             = Str(ExpectedErrorFields(inv[i].settled.value)[1])
                        /\ context["errorType"]
                             = Str(ExpectedErrorFields(inv[i].settled.value)[2])

\* two invocations were in flight together, with different paths and start
\* readings; one failed with 404 and has finished, the other, which failed
\* with an Error, has finished too
C23_Witness ==
    \E i, j \in Slots :
        /\ inv[i].pc = "done" /\ inv[j].pc = "done"
        /\ inv[i].opts.path # inv[j].opts.path
        /\ inv[i].startTime # inv[j].startTime
        /\ inv[i].settled = Rejected(Num(404))
        /\ inv[j].settled = Rejected(ErrorObject("e1", "Error", "forbidden"))
        /\ inv[i].entries[2].context["error"] = Str("404")
        /\ inv[j].entries[2].context["error"] = Str("forbidden")

====
